---- MODULE Spec2Model ----
(***************************************************************************)
(* MusicConnection of src/services/Music.ts: the per-guild playback        *)
(* connection (queue sequencing, play / skip / rewind / seek, the 'end'    *)
(* handler and the doPlayNext guard) and its volume engine (setVolume,     *)
(* fadeVolumeTo, the speakingStart / speakingStop debounce timers).        *)
(* MusicService.getMusicConnection, the registry of connections by guild, *)
(* is modelled beside it.                                                  *)
(*                                                                         *)
(* The voice transport (eris VoiceConnection) is the environment:          *)
(*   - stopPlaying() on a connection that is sending a stream clears       *)
(*     `playing` and emits 'end' synchronously; on an idle connection it   *)
(*     does nothing;                                                       *)
(*   - a stream that runs out ends through the same path ('end' once);     *)
(*   - play() while a stream is still being sent is refused by the         *)
(*     encoder ("Already encoding") and the running stream continues.      *)
(* polly.synthesizeSpeech and item.getStream() complete later, in any      *)
(* order, with success or failure.                                         *)
(***************************************************************************)
EXTENDS Integers, Sequences, FiniteSets, TLC

\* ---------------------------------------------------------------- bounds
MaxItems == 3        \* number of play() calls (distinct items 1..MaxItems)
MaxPending == 2      \* cap on outstanding requests of one kind per item
MaxCmds == 3         \* number of skip / rewind / seek / disconnect calls
MaxFailures == 1     \* number of failed synthesizeSpeech / getStream requests

MaxUsers == 2        \* identities the transport reports as speaking
MaxFades == 2        \* number of fadeVolumeTo() calls
MaxEvents == 3       \* number of speakingStart / speakingStop events

MaxGuilds == 2       \* guild ids asked of the registry
MaxCalls == 3        \* number of getMusicConnection() calls

\* ------------------------------------------------------ program constants
VOL_FADE_STEPS == 15 \* VOL_FADE_TIME * 10 fade steps, 100ms apart
StartDelay == 5      \* 500ms before ducking, in 100ms ticks
StopDelay == 10      \* 1000ms before restoring, in 100ms ticks
DuckDivisor == 5     \* 0.2 * volume

\* Volumes are counted in 1/VolUnit so that MaxFades nested fades and the
\* duck factor stay exact: 1.0 is VolUnit.
RECURSIVE Pow(_, _)
Pow(b, n) == IF n = 0 THEN 1 ELSE b * Pow(b, n - 1)
VolUnit == DuckDivisor * Pow(VOL_FADE_STEPS, MaxFades)
Levels == {0, 2 * VolUnit, 3 * VolUnit}    \* arguments of setVolume
Users == 1..MaxUsers
Guilds == 1..MaxGuilds
NoConn == 0          \* no entry in musicConnections

Items == 1..MaxItems
NoItem == 0          \* null / undefined item
NoStream == [kind |-> "none", item |-> NoItem]
AnnStream(i) == [kind |-> "ann", item |-> i]
ItemStream(i) == [kind |-> "item", item |-> i]

VARIABLES
    queue,          \* musicQueueCache.queue
    current,        \* musicQueueCache.current
    connection,     \* this.connection is set (BOOLEAN)
    voiceChannel,   \* this.voiceChannel is set (BOOLEAN)
    playing,        \* the stream the transport is sending (connection.playing)
    doPlayNext,     \* the advance guard
    doneCallback,   \* item closed over by this.doneCallback, NoItem if unset
    synthPending,   \* item -> synthesizeSpeech requests in flight
    streamPending,  \* item -> doneCallback() runs awaiting next.getStream()
    seekPending,    \* item -> seek() runs awaiting current.getStream()
    nextItem,       \* the next item a play() call submits
    volume,         \* this.volume, the target volume
    connVolume,     \* connection.volume, the transport's live volume
    speaking,       \* this.speaking
    startSpeakingTimeout,  \* handle is set (BOOLEAN)
    stopSpeakingTimeout,   \* handle is set (BOOLEAN)
    timers,         \* pending speaking timers: [kind, due, held]
    fadeTimeouts,   \* pending timers of this.fadeTimeouts: [due, vol]
    fades,          \* fadeVolumeTo() calls so far
    events,         \* speaking events so far
    activeFor,      \* history: ticks since speaking became non-empty
    periodClean,    \* history: no setVolume / reconnect in this period
    fadeOrigin,     \* history: who started the fade that is running or ran
    lastPeriod,     \* history: the last ended activity period was under 500ms
    musicConnections,  \* MusicService.musicConnections: guild -> connection
    getPending,     \* getMusicConnection() calls awaiting cache.get()
    returned,       \* history: guild -> connections handed to callers
    calls,          \* getMusicConnection() calls so far
    cmds,           \* manual commands issued so far
    failures,       \* failed requests so far
    becameCurrent,  \* history: items a doneCallback has made current
    skipDiscarded,  \* history: items a skip() found being sequenced or played
    rewound         \* history: the last rewind() and whether it is undisturbed

vars == <<queue, current, connection, voiceChannel, playing, doPlayNext,
          doneCallback, synthPending, streamPending, seekPending, nextItem,
          volume, connVolume, speaking, startSpeakingTimeout,
          stopSpeakingTimeout, timers, fadeTimeouts, fades, events,
          activeFor, periodClean, fadeOrigin, lastPeriod,
          musicConnections, getPending, returned, calls,
          cmds, failures, becameCurrent, skipDiscarded, rewound>>

\* the volume engine's own fields and its history
volumeVars == <<volume, connVolume, speaking, startSpeakingTimeout,
                stopSpeakingTimeout, timers, fadeTimeouts, fades, events,
                activeFor, periodClean, fadeOrigin, lastPeriod>>
\* the registry of MusicService
registry == <<musicConnections, getPending, returned, calls>>
queueHist == <<cmds, failures, becameCurrent, skipDiscarded, rewound>>

NoRewind == [item |-> NoItem, queue |-> <<>>, live |-> FALSE]

\* The fields the handlers below transform, as one record.
St == [queue |-> queue, current |-> current, playing |-> playing,
       doPlayNext |-> doPlayNext, doneCallback |-> doneCallback,
       synthPending |-> synthPending, streamPending |-> streamPending]

Apply(s) ==
    /\ queue' = s.queue
    /\ current' = s.current
    /\ playing' = s.playing
    /\ doPlayNext' = s.doPlayNext
    /\ doneCallback' = s.doneCallback
    /\ synthPending' = s.synthPending
    /\ streamPending' = s.streamPending
    /\ \A i \in Items : /\ s.synthPending[i] <= MaxPending
                        /\ s.streamPending[i] <= MaxPending

RECURSIVE playNext(_), onEnd(_), stopPlaying(_)

\* connection.on('end', ...)
onEnd(s) ==
    LET s1 == [s EXCEPT !.current = NoItem]
        s2 == IF s1.doneCallback # NoItem
              THEN [s1 EXCEPT !.streamPending[s1.doneCallback] = @ + 1,
                              !.doneCallback = NoItem]
              ELSE s1
    IN  IF s2.doPlayNext THEN playNext(s2) ELSE s2

\* VoiceConnection.stopPlaying(): emits 'end' synchronously when a stream runs
stopPlaying(s) ==
    IF s.playing = NoStream THEN s
    ELSE onEnd([s EXCEPT !.playing = NoStream])

\* faulty variant of playNext: the head of the queue is read, not shifted
playNextPeek(s) ==
    IF s.queue = <<>> \/ Head(s.queue) = NoItem THEN s
    ELSE LET s2 == IF s.playing # NoStream
                   THEN stopPlaying([s EXCEPT !.doPlayNext = FALSE])
                   ELSE s
         IN  [s2 EXCEPT !.synthPending[Head(s.queue)] = @ + 1]

\* MusicConnection.playNext up to the synthesizeSpeech request
playNext(s) ==
    IF s.queue = <<>> THEN s
    ELSE LET next == Head(s.queue)
             s1 == [s EXCEPT !.queue = Tail(s.queue)]
         IN  IF next = NoItem THEN s1
             ELSE LET s2 == IF s1.playing # NoStream
                            THEN stopPlaying([s1 EXCEPT !.doPlayNext = FALSE])
                            ELSE s1
                  IN  [s2 EXCEPT !.synthPending[next] = @ + 1]

\* VoiceConnection.play(stream): refused while another stream is being sent
connPlay(s, stream) ==
    IF s.playing = NoStream THEN [s EXCEPT !.playing = stream] ELSE s

\* items that are dequeued and not yet given up: request or callback pending
InFlight(i) ==
    \/ synthPending[i] > 0
    \/ streamPending[i] > 0
    \/ doneCallback = i

Busy(i) == InFlight(i) \/ current = i \/ playing.item = i

Init ==
    /\ queue = <<>>
    /\ current = NoItem
    /\ connection = FALSE
    /\ voiceChannel = FALSE
    /\ playing = NoStream
    /\ doPlayNext = TRUE
    /\ doneCallback = NoItem
    /\ synthPending = [i \in Items |-> 0]
    /\ streamPending = [i \in Items |-> 0]
    /\ seekPending = [i \in Items |-> 0]
    /\ nextItem = 1
    /\ volume = VolUnit
    /\ connVolume = VolUnit
    /\ speaking = {}
    /\ startSpeakingTimeout = FALSE
    /\ stopSpeakingTimeout = FALSE
    /\ timers = <<>>
    /\ fadeTimeouts = <<>>
    /\ fades = 0
    /\ events = 0
    /\ activeFor = 0
    /\ periodClean = TRUE
    /\ fadeOrigin = "none"
    /\ lastPeriod = "none"
    /\ musicConnections = [g \in Guilds |-> NoConn]
    /\ getPending = {}
    /\ returned = [g \in Guilds |-> {}]
    /\ calls = 0
    /\ cmds = 0
    /\ failures = 0
    /\ becameCurrent = {}
    /\ skipDiscarded = {}
    /\ rewound = NoRewind

machine == <<queue, current, playing, doPlayNext, doneCallback,
             synthPending, streamPending>>

volumeRest == <<volume, speaking, startSpeakingTimeout, stopSpeakingTimeout,
                timers, fadeTimeouts, fades, events, activeFor,
                fadeOrigin, lastPeriod>>

\* connect(channel): with a handle only the channel is switched; without one
\* the channel is joined and the handlers are registered on the new
\* transport connection, whose volume starts at 1.0.
join ==
    /\ connection' = TRUE
    /\ voiceChannel' = TRUE
    /\ connVolume' = IF connection THEN connVolume ELSE VolUnit
    /\ periodClean' = (connection /\ periodClean)

connect ==
    /\ join
    /\ UNCHANGED <<machine, seekPending, nextItem, volumeRest, queueHist>>
    /\ UNCHANGED registry

\* play(item, voiceChannel?): connect when asked or needed, push, and start
\* sequencing when nothing is current.  Without a handle, a remembered channel
\* or a channel argument the call throws before it changes anything.
play(withChannel) ==
    /\ nextItem <= MaxItems
    /\ withChannel \/ connection \/ voiceChannel
    /\ join
    /\ nextItem' = nextItem + 1
    /\ LET s1 == [St EXCEPT !.queue = Append(queue, nextItem)]
       IN  Apply(IF s1.current = NoItem THEN playNext(s1) ELSE s1)
    /\ rewound' = NoRewind
    /\ UNCHANGED <<seekPending, cmds, failures, becameCurrent, skipDiscarded>>
    /\ UNCHANGED volumeRest
    /\ UNCHANGED registry

\* skip(): playNext() when connected
skip ==
    /\ cmds < MaxCmds
    /\ cmds' = cmds + 1
    /\ IF connection THEN Apply(playNext(St)) ELSE UNCHANGED machine
    /\ skipDiscarded' = IF connection
                        THEN skipDiscarded \cup {i \in Items : Busy(i)}
                        ELSE skipDiscarded
    /\ rewound' = NoRewind
    /\ UNCHANGED <<connection, voiceChannel, seekPending, nextItem, failures,
                   becameCurrent>>
    /\ UNCHANGED volumeVars
    /\ UNCHANGED registry

\* rewind(): reconnect when needed (throws with neither handle nor remembered
\* channel), put current back in front, playNext()
rewind ==
    /\ cmds < MaxCmds
    /\ cmds' = cmds + 1
    /\ connection \/ voiceChannel
    /\ join
    /\ Apply(playNext([St EXCEPT !.queue = <<current>> \o queue]))
    /\ rewound' = IF connection /\ current # NoItem /\ playing = ItemStream(current)
                  THEN [item |-> current, queue |-> queue, live |-> TRUE]
                  ELSE NoRewind
    /\ UNCHANGED <<seekPending, nextItem, failures,
                   becameCurrent, skipDiscarded>>
    /\ UNCHANGED volumeRest
    /\ UNCHANGED registry

\* the stream being sent runs out: the transport emits 'end'
streamEnd ==
    /\ connection
    /\ playing # NoStream
    /\ Apply(stopPlaying(St))
    /\ rewound' = IF playing.kind = "item" THEN NoRewind ELSE rewound
    /\ UNCHANGED <<connection, voiceChannel, seekPending, nextItem, cmds,
                   failures, becameCurrent, skipDiscarded>>
    /\ UNCHANGED volumeVars
    /\ UNCHANGED registry

\* synthesizeSpeech callback, err = null: set doneCallback, play the
\* announcement (this.connection.play throws when the handle is gone)
synthDone(i) ==
    /\ synthPending[i] > 0
    /\ LET s1 == [St EXCEPT !.synthPending[i] = @ - 1, !.doneCallback = i]
       IN  Apply(IF connection THEN connPlay(s1, AnnStream(i)) ELSE s1)
    /\ UNCHANGED <<connection, voiceChannel, seekPending, nextItem, cmds,
                   failures, becameCurrent, skipDiscarded, rewound>>
    /\ UNCHANGED volumeVars
    /\ UNCHANGED registry

\* synthesizeSpeech callback, err set: this.doneCallback() and return.  With
\* no callback stored the call throws; a stored one belongs to an earlier item.
synthFailed(i) ==
    /\ failures < MaxFailures
    /\ failures' = failures + 1
    /\ synthPending[i] > 0
    /\ LET s1 == [St EXCEPT !.synthPending[i] = @ - 1]
       IN  Apply(IF doneCallback # NoItem
                 THEN [s1 EXCEPT !.streamPending[doneCallback] = @ + 1]
                 ELSE s1)
    /\ UNCHANGED <<connection, voiceChannel, seekPending, nextItem, cmds,
                   becameCurrent, skipDiscarded, rewound>>
    /\ UNCHANGED volumeVars
    /\ UNCHANGED registry

\* doneCallback after `await next.getStream()` resolved (connection.play
\* throws when the handle is gone, before the guard is restored)
streamReady(i) ==
    /\ streamPending[i] > 0
    /\ LET s1 == [St EXCEPT !.streamPending[i] = @ - 1, !.current = i]
       IN  Apply(IF connection
                 THEN [connPlay(s1, ItemStream(i)) EXCEPT !.doPlayNext = TRUE]
                 ELSE s1)
    /\ becameCurrent' = becameCurrent \cup {i}
    /\ UNCHANGED <<connection, voiceChannel, seekPending, nextItem, cmds,
                   failures, skipDiscarded, rewound>>
    /\ UNCHANGED volumeVars
    /\ UNCHANGED registry

\* doneCallback after `await next.getStream()` rejected: the async function
\* ends there
streamFailed(i) ==
    /\ failures < MaxFailures
    /\ failures' = failures + 1
    /\ streamPending[i] > 0
    /\ streamPending' = [streamPending EXCEPT ![i] = @ - 1]
    /\ UNCHANGED <<queue, current, connection, voiceChannel, playing,
                   doPlayNext, doneCallback, synthPending, seekPending,
                   nextItem, cmds, becameCurrent, skipDiscarded, rewound>>
    /\ UNCHANGED volumeVars
    /\ UNCHANGED registry

\* isPlaying(): this.connection && this.connection.playing
isPlaying == connection /\ playing # NoStream

\* The seek command (commands/music/seek.ts) and seek(time) up to
\* `await current.getStream()`.  The command replies "not playing" unless
\* isPlaying(), and reading getNowPlaying().platform throws when current is
\* empty; otherwise seek() clears the guard and asks for the stream.
seek ==
    /\ cmds < MaxCmds
    /\ cmds' = cmds + 1
    /\ isPlaying
    /\ IF current = NoItem
       THEN UNCHANGED <<doPlayNext, seekPending>>
       ELSE /\ seekPending[current] < MaxPending
            /\ doPlayNext' = FALSE
            /\ seekPending' = [seekPending EXCEPT ![current] = @ + 1]
    /\ rewound' = NoRewind
    /\ UNCHANGED <<queue, current, connection, voiceChannel, playing,
                   doneCallback, synthPending, streamPending, nextItem,
                   failures, becameCurrent, skipDiscarded>>
    /\ UNCHANGED volumeVars
    /\ UNCHANGED registry

\* seek(time) after the await: stopPlaying, play at the offset, restore
\* current and the guard (this.connection.stopPlaying throws without handle)
seekReady(c) ==
    /\ seekPending[c] > 0
    /\ seekPending' = [seekPending EXCEPT ![c] = @ - 1]
    /\ IF connection
       THEN Apply([connPlay(stopPlaying(St), ItemStream(c))
                      EXCEPT !.current = c, !.doPlayNext = TRUE])
       ELSE UNCHANGED machine
    /\ UNCHANGED <<connection, voiceChannel, nextItem, cmds, failures,
                   becameCurrent, skipDiscarded, rewound>>
    /\ UNCHANGED volumeVars
    /\ UNCHANGED registry

\* seek(time): `await current.getStream()` rejected
seekFailed(c) ==
    /\ failures < MaxFailures
    /\ failures' = failures + 1
    /\ seekPending[c] > 0
    /\ seekPending' = [seekPending EXCEPT ![c] = @ - 1]
    /\ UNCHANGED <<queue, current, connection, voiceChannel, playing,
                   doPlayNext, doneCallback, synthPending, streamPending,
                   nextItem, cmds, becameCurrent, skipDiscarded, rewound>>
    /\ UNCHANGED volumeVars
    /\ UNCHANGED registry

\* disconnect(): stopPlaying, leave, drop the handle
disconnect ==
    /\ cmds < MaxCmds
    /\ cmds' = cmds + 1
    /\ connection
    /\ Apply(stopPlaying(St))
    /\ connection' = FALSE
    /\ rewound' = NoRewind
    /\ UNCHANGED <<voiceChannel, seekPending, nextItem, failures,
                   becameCurrent, skipDiscarded>>
    /\ periodClean' = FALSE
    /\ fadeOrigin' = "none"
    /\ UNCHANGED <<connVolume, volume, speaking, startSpeakingTimeout,
                   stopSpeakingTimeout, timers, fadeTimeouts, fades, events,
                   activeFor, lastPeriod>>
    /\ UNCHANGED registry



\* ------------------------------------------------------- volume engine
Max(a, b) == IF a >= b THEN a ELSE b
Min(a, b) == IF a <= b THEN a ELSE b

\* the timers of `ts` except those at the positions in `drop`
RECURSIVE Without(_, _, _)
Without(ts, drop, k) ==
    IF k > Len(ts) THEN <<>>
    ELSE (IF k \in drop THEN <<>> ELSE <<ts[k]>>) \o Without(ts, drop, k + 1)

Held(ts, kind) == {k \in 1..Len(ts) : ts[k].kind = kind /\ ts[k].held}

\* faulty variant of clearTimeout: the timer is left pending
clearTimeoutKeeps(ts, kind) == ts

\* clearTimeout(handle): the timer the handle names, if still pending, is gone
clearTimeout(ts, kind) == Without(ts, Held(ts, kind), 1)

\* handle = setTimeout(func, delay): the handle now names the new timer; a
\* timer it named before stays pending
setTimeout(ts, kind, delay) ==
    [k \in 1..Len(ts) |->
        IF ts[k].kind = kind THEN [ts[k] EXCEPT !.held = FALSE] ELSE ts[k]]
    \o <<[kind |-> kind, due |-> delay, held |-> TRUE]>>

\* handle = null in a timer callback
dropHandle(ts, kind) ==
    [k \in 1..Len(ts) |->
        IF ts[k].kind = kind THEN [ts[k] EXCEPT !.held = FALSE] ELSE ts[k]]

\* fadeVolumeTo(newVolume) after cancelFadeVolume(): the timers it pushes
fadeVolumeTo(startVol, newVolume) ==
    LET diff == newVolume - startVol
        step == diff \div VOL_FADE_STEPS
    IN  [k \in 1..VOL_FADE_STEPS |->
            [due |-> k - 1,
             vol |-> Max(0, Min(startVol + (k - 1) * step, 2 * VolUnit))]]

\* setVolume(volume): store the target and fade to it, when connected
setVolume(v) ==
    /\ fades < MaxFades
    /\ IF connection
       THEN /\ volume' = v
            /\ fadeTimeouts' = fadeVolumeTo(connVolume, v)
            /\ fades' = fades + 1
            /\ fadeOrigin' = "setVolume"
            /\ periodClean' = FALSE
       ELSE UNCHANGED <<volume, fadeTimeouts, fades, fadeOrigin, periodClean>>
    /\ UNCHANGED <<machine, connection, voiceChannel, seekPending, nextItem,
                   connVolume, speaking, startSpeakingTimeout,
                   stopSpeakingTimeout, timers, activeFor, events, queueHist>>
    /\ UNCHANGED <<lastPeriod, registry>>

\* connection.on('speakingStart', userId => ...)
speakingStart(userId) ==
    /\ connection
    /\ events < MaxEvents
    /\ events' = events + 1
    /\ IF speaking = {}
       THEN IF stopSpeakingTimeout
            THEN /\ timers' = clearTimeout(timers, "stop")
                 /\ stopSpeakingTimeout' = FALSE
                 /\ UNCHANGED <<startSpeakingTimeout, fadeTimeouts, fadeOrigin>>
            ELSE /\ fadeTimeouts' = <<>>
                 /\ fadeOrigin' = IF fadeTimeouts = <<>> THEN fadeOrigin
                                  ELSE "none"
                 /\ timers' = setTimeout(timers, "start", StartDelay)
                 /\ startSpeakingTimeout' = TRUE
                 /\ UNCHANGED stopSpeakingTimeout
       ELSE UNCHANGED <<timers, startSpeakingTimeout, stopSpeakingTimeout,
                        fadeTimeouts, fadeOrigin>>
    /\ speaking' = speaking \cup {userId}
    /\ activeFor' = IF speaking = {} THEN 0 ELSE activeFor
    /\ periodClean' = IF speaking = {} THEN TRUE ELSE periodClean
    /\ UNCHANGED <<machine, connection, voiceChannel, seekPending, nextItem,
                   volume, connVolume, fades, queueHist>>
    /\ UNCHANGED <<lastPeriod, registry>>

\* connection.on('speakingStop', userId => ...)
speakingStop(userId) ==
    /\ connection
    /\ events < MaxEvents
    /\ events' = events + 1
    /\ speaking' = speaking \ {userId}
    /\ IF speaking' = {}
       THEN /\ timers' = setTimeout(IF startSpeakingTimeout
                                    THEN clearTimeout(timers, "start")
                                    ELSE timers, "stop", StopDelay)
            /\ startSpeakingTimeout' = FALSE
            /\ stopSpeakingTimeout' = TRUE
       ELSE UNCHANGED <<timers, startSpeakingTimeout, stopSpeakingTimeout>>
    /\ activeFor' = IF speaking' = {} THEN 0 ELSE activeFor
    /\ lastPeriod' = IF speaking # {} /\ speaking' = {}
                     THEN (IF activeFor < StartDelay THEN "short" ELSE "long")
                     ELSE lastPeriod
    /\ UNCHANGED <<machine, connection, voiceChannel, seekPending, nextItem,
                   volume, connVolume, fadeTimeouts, fades, periodClean,
                   fadeOrigin, queueHist>>
    /\ UNCHANGED registry

\* the 500ms timer of speakingStart fires: duck, then clear the handle
\* (this.connection.setVolume throws when the handle is gone)
startSpeakingFired(k) ==
    /\ k \in 1..Len(timers)
    /\ timers[k].kind = "start" /\ timers[k].due = 0
    /\ IF connection
       THEN /\ connVolume' = volume \div DuckDivisor
            /\ startSpeakingTimeout' = FALSE
            /\ timers' = dropHandle(Without(timers, {k}, 1), "start")
            /\ fadeOrigin' = "none"
       ELSE /\ timers' = Without(timers, {k}, 1)
            /\ UNCHANGED <<connVolume, startSpeakingTimeout, fadeOrigin>>
    /\ UNCHANGED <<machine, connection, voiceChannel, seekPending, nextItem,
                   volume, speaking, stopSpeakingTimeout, fadeTimeouts, fades,
                   activeFor, periodClean, events, queueHist>>
    /\ UNCHANGED <<lastPeriod, registry>>

\* the 1000ms timer of speakingStop fires: clear the handle, fade back to
\* the target (cancelFadeVolume runs, then this.connection.volume throws
\* when the handle is gone)
stopSpeakingFired(k) ==
    /\ k \in 1..Len(timers)
    /\ timers[k].kind = "stop" /\ timers[k].due = 0
    /\ connection => fades < MaxFades
    /\ stopSpeakingTimeout' = FALSE
    /\ timers' = dropHandle(Without(timers, {k}, 1), "stop")
    /\ IF connection
       THEN /\ fadeTimeouts' = fadeVolumeTo(connVolume, volume)
            /\ fades' = fades + 1
            /\ fadeOrigin' = "restore"
       ELSE /\ fadeTimeouts' = <<>>
            /\ fadeOrigin' = "none"
            /\ UNCHANGED fades
    /\ UNCHANGED <<machine, connection, voiceChannel, seekPending, nextItem,
                   volume, connVolume, speaking, startSpeakingTimeout,
                   activeFor, periodClean, events, queueHist>>
    /\ UNCHANGED <<lastPeriod, registry>>

\* a fade step is due: connection.setVolume(newVol) (throws without handle)
fadeStepFired ==
    /\ fadeTimeouts # <<>>
    /\ Head(fadeTimeouts).due = 0
    /\ fadeTimeouts' = Tail(fadeTimeouts)
    /\ connVolume' = IF connection THEN Head(fadeTimeouts).vol ELSE connVolume
    /\ UNCHANGED <<machine, connection, voiceChannel, seekPending, nextItem,
                   volume, speaking, startSpeakingTimeout, stopSpeakingTimeout,
                   timers, fades, activeFor, periodClean, fadeOrigin,
                   events, queueHist>>
    /\ UNCHANGED <<lastPeriod, registry>>

\* 100ms pass; no timer is overdue
tick ==
    /\ \A k \in 1..Len(timers) : timers[k].due > 0
    /\ \A k \in 1..Len(fadeTimeouts) : fadeTimeouts[k].due > 0
    /\ timers # <<>> \/ fadeTimeouts # <<>> \/ speaking # {}
    /\ timers' = [k \in 1..Len(timers) |->
                     [timers[k] EXCEPT !.due = @ - 1]]
    /\ fadeTimeouts' = [k \in 1..Len(fadeTimeouts) |->
                           [fadeTimeouts[k] EXCEPT !.due = @ - 1]]
    /\ activeFor' = IF speaking # {} /\ activeFor <= StartDelay
                    THEN activeFor + 1 ELSE activeFor
    /\ UNCHANGED <<machine, connection, voiceChannel, seekPending, nextItem,
                   volume, connVolume, speaking, startSpeakingTimeout,
                   stopSpeakingTimeout, fades, periodClean, fadeOrigin,
                   events, queueHist>>
    /\ UNCHANGED <<lastPeriod, registry>>

\* ------------------------------------------------------------ registry
\* getMusicConnection(guild) up to `await this.cache.get(guild.id)`: an
\* entry of the map is returned at once; without one the call waits for the
\* queue cache.
getMusicConnection(g) ==
    /\ calls < MaxCalls
    /\ calls' = calls + 1
    /\ IF musicConnections[g] # NoConn
       THEN /\ returned' = [returned EXCEPT ![g] = @ \cup {musicConnections[g]}]
            /\ UNCHANGED getPending
       ELSE /\ getPending' = getPending \cup {<<calls + 1, g>>}
            /\ UNCHANGED returned
    /\ UNCHANGED <<musicConnections, machine, connection, voiceChannel,
                   seekPending, nextItem, volumeVars, queueHist>>

\* getMusicConnection(guild) after the await: new MusicConnection (named
\* after the call that made it), stored in the map whatever it holds, and
\* returned
cacheGot(c, g) ==
    /\ <<c, g>> \in getPending
    /\ getPending' = getPending \ {<<c, g>>}
    /\ musicConnections' = [musicConnections EXCEPT ![g] = c]
    /\ returned' = [returned EXCEPT ![g] = @ \cup {c}]
    /\ UNCHANGED <<calls, machine, connection, voiceChannel, seekPending,
                   nextItem, volumeVars, queueHist>>

Next ==
    \/ connect
    \/ \E w \in BOOLEAN : play(w)
    \/ skip
    \/ rewind
    \/ streamEnd
    \/ \E i \in Items : synthDone(i)
    \/ \E i \in Items : synthFailed(i)
    \/ \E i \in Items : streamReady(i)
    \/ \E i \in Items : streamFailed(i)
    \/ seek
    \/ \E c \in Items : seekReady(c)
    \/ \E c \in Items : seekFailed(c)
    \/ disconnect

Spec == Init /\ [][Next]_vars

\* Enqueueing and natural sequencing only: play() calls, successful
\* announcer and source completions, streams running out.
NextAuto ==
    \/ \E w \in BOOLEAN : play(w)
    \/ streamEnd
    \/ \E i \in Items : synthDone(i)
    \/ \E i \in Items : streamReady(i)

SpecAuto == Init /\ [][NextAuto]_vars

\* The same with skip() calls.
NextSkip ==
    \/ \E w \in BOOLEAN : play(w)
    \/ skip
    \/ streamEnd
    \/ \E i \in Items : synthDone(i)
    \/ \E i \in Items : streamReady(i)

SpecSkip == Init /\ [][NextSkip]_vars

\* Sequencing with skip() calls and sources that can fail.
NextSource ==
    \/ \E w \in BOOLEAN : play(w)
    \/ skip
    \/ streamEnd
    \/ \E i \in Items : synthDone(i)
    \/ \E i \in Items : streamReady(i)
    \/ \E i \in Items : streamFailed(i)

SpecSource == Init /\ [][NextSource]_vars

\* Natural sequencing with seek commands whose source can fail.
NextSeek ==
    \/ \E w \in BOOLEAN : play(w)
    \/ streamEnd
    \/ \E i \in Items : synthDone(i)
    \/ \E i \in Items : streamReady(i)
    \/ seek
    \/ \E c \in Items : seekReady(c)
    \/ \E c \in Items : seekFailed(c)

SpecSeek == Init /\ [][NextSeek]_vars

\* Every command and every stream end, all requests succeeding.
NextQueue ==
    \/ \E w \in BOOLEAN : play(w)
    \/ skip
    \/ rewind
    \/ streamEnd
    \/ \E i \in Items : synthDone(i)
    \/ \E i \in Items : streamReady(i)
    \/ seek
    \/ \E c \in Items : seekReady(c)
    \/ disconnect

SpecQueue == Init /\ [][NextQueue]_vars

\* setVolume and its fades alone: no item is enqueued, nobody speaks.
NextFade ==
    \/ connect
    \/ disconnect
    \/ \E v \in Levels : setVolume(v)
    \/ fadeStepFired
    \/ tick

SpecFade == Init /\ [][NextFade]_vars

\* Ducking alone: speaking events and their timers at the initial target
\* volume; no item is enqueued.
NextDuck ==
    \/ connect
    \/ disconnect
    \/ \E u \in Users : speakingStart(u)
    \/ \E u \in Users : speakingStop(u)
    \/ \E k \in 1..MaxEvents : startSpeakingFired(k)
    \/ \E k \in 1..MaxEvents : stopSpeakingFired(k)
    \/ fadeStepFired
    \/ tick

SpecDuck == Init /\ [][NextDuck]_vars

\* The registry alone: getMusicConnection() calls and their cache lookups.
NextRegistry ==
    \/ \E g \in Guilds : getMusicConnection(g)
    \/ \E c \in 1..MaxCalls, g \in Guilds : cacheGot(c, g)

SpecRegistry == Init /\ [][NextRegistry]_vars

\* ---------------------------------------------------------------- claims
InQueue(i) == \E k \in 1..Len(queue) : queue[k] = i
Submitted == 1..(nextItem - 1)
\* no transition in progress: no request outstanding, no callback stored
Quiet ==
    /\ doneCallback = NoItem
    /\ \A i \in Items :
          synthPending[i] = 0 /\ streamPending[i] = 0 /\ seekPending[i] = 0

\* C1: every natural end of the current item's stream with a non-empty queue
\* dequeues exactly one item and requests its announcement, and the end of
\* an announcement stream dequeues nothing.
C1_ExactlyOneAdvance ==
    [][streamEnd =>
         IF playing.kind = "item" /\ queue # <<>>
         THEN /\ queue' = Tail(queue)
              /\ synthPending'[Head(queue)] = synthPending[Head(queue)] + 1
         ELSE queue' = queue]_vars

\* C2: while the first item enqueued on the empty connection is current, the
\* queue holds the items enqueued after it, in submission order.
C2_FirstCurrentRestQueued ==
    current = 1 => queue = [k \in 1..(nextItem - 2) |-> k + 1]

\* C3: no item becomes current twice, and an item that left the queue and is
\* no longer being sequenced, announced or played has been current unless a
\* skip() discarded it.
C3_NoDoubleAdvance ==
    /\ [][\A i \in Items : streamReady(i) => i \notin becameCurrent]_vars
    /\ [](\A i \in Submitted :
            (~InQueue(i) /\ ~Busy(i) /\ i \notin becameCurrent)
                => i \in skipDiscarded)

\* C4: seek() with a current item leaves the queue as it is, dequeues nothing
\* when it stops and restarts the stream, and ends with the same current item.
C4_SeekNoAdvance ==
    [][/\ (seek /\ current # NoItem) => (queue' = queue /\ current' = current)
       /\ \A c \in Items : (seekReady(c) /\ connection) =>
                               (queue' = queue /\ current' = c)]_vars

\* C5: rewind() while X is current and playing leaves the queue as it was,
\* and (every announcer and source request succeeding) once the transition
\* has run X is current and playing again with the same queue.
C5_RewindRestarts ==
    /\ [][(rewind /\ rewound'.live) => queue' = queue]_vars
    /\ []((rewound.live /\ failures = 0 /\ Quiet) =>
            /\ current = rewound.item
            /\ playing = ItemStream(rewound.item)
            /\ queue = rewound.queue)

\* C6: skip() without a handle changes nothing; with a handle the current
\* item is no longer current afterwards and is not requeued, and the head of
\* the queue, if any, is dequeued and announced.
C6_SkipDiscardsCurrent ==
    [][skip =>
         IF ~connection THEN UNCHANGED machine
         ELSE /\ current # NoItem => (current' # current /\ queue' = Tail(queue))
              /\ queue # <<>> =>
                    /\ queue' = Tail(queue)
                    /\ synthPending'[Head(queue)] = synthPending[Head(queue)] + 1]_vars

\* C7: when synthesis fails for item i the transition goes on to obtain i's
\* source, and no other item's callback is run.
C7_SynthFailureFallsThrough ==
    [][\A i \in Items : synthFailed(i) =>
          /\ streamPending'[i] = streamPending[i] + 1
          /\ \A j \in Items \ {i} : streamPending'[j] = streamPending[j]]_vars

\* C8: when an item's source fails on a live connection and that leaves no
\* transition in progress and no stream running, the connection is idle
\* (empty current), no item is left waiting in the queue, and the guard is
\* true.
C8_SourceFailureAdvances ==
    [][\A i \in Items :
          (streamFailed(i) /\ connection /\ Quiet' /\ playing' = NoStream) =>
          /\ doPlayNext'
          /\ queue' = <<>>
          /\ current' = NoItem]_vars

\* C9: after setVolume(v) with v in [0,2], nobody speaking, once the last
\* step of the fade it started has fired the transport volume is v.
C9_FadeReachesTarget ==
    (/\ connection
     /\ fadeOrigin = "setVolume"
     /\ fadeTimeouts = <<>>
     /\ speaking = {}
     /\ volume >= 0 /\ volume <= 2 * VolUnit) => connVolume = volume

\* C10: once somebody has been speaking for more than 500ms in an activity
\* period (no setVolume or reconnect in between), the transport volume is
\* 0.2 x the target volume.
C10_DuckedAfterDelay ==
    (/\ connection
     /\ speaking # {}
     /\ activeFor > StartDelay
     /\ periodClean) => connVolume = volume \div DuckDivisor

\* C11: an activity period that ends before 500ms leaves no duck-activate
\* timer behind (none is pending while nobody speaks), and the 500ms timer
\* writes the ducked volume only in a period that has lasted 500ms.
C11_ShortActivityNeverDucks ==
    /\ [](speaking = {} =>
            \A k \in 1..Len(timers) : timers[k].kind # "start")
    /\ [][\A k \in 1..MaxEvents :
             (startSpeakingFired(k) /\ connection) =>
                 (speaking # {} /\ activeFor >= StartDelay)]_vars

\* a period shorter than 500ms ended more than 500ms ago and the transport
\* volume is still the target
C11_Witness ==
    /\ connection
    /\ speaking = {}
    /\ lastPeriod = "short"
    /\ \E k \in 1..Len(timers) :
          timers[k].kind = "stop" /\ timers[k].due < StopDelay - StartDelay
    /\ connVolume = volume

\* C12: the 1000ms timer starts the fade back to the target only while
\* nobody is speaking.
C12_RestoreOnlyInSilence ==
    [][\A k \in 1..MaxEvents :
          (stopSpeakingFired(k) /\ connection) => speaking = {}]_vars

\* C13: disconnect() leaves the queue and the current item as they were.
C13_DisconnectKeepsQueueState ==
    [][disconnect => (queue' = queue /\ current' = current)]_vars

\* C14: right after disconnect() no fade step and no speaking timer is
\* pending.
C14_DisconnectCancelsTimers ==
    [][disconnect => (timers' = <<>> /\ fadeTimeouts' = <<>>)]_vars

\* C15: calls of getMusicConnection for one guild all get the same
\* connection, and an entry of the map is never replaced.
C15_OneConnectionPerGuild ==
    /\ [](\A g \in Guilds : Cardinality(returned[g]) <= 1)
    /\ [][\A g \in Guilds : musicConnections[g] # NoConn =>
             musicConnections'[g] = musicConnections[g]]_vars

\* C16: the stored target volume and the transport volume lie in [0,2].
C16_VolumeClamped ==
    /\ volume >= 0 /\ volume <= 2 * VolUnit
    /\ connVolume >= 0 /\ connVolume <= 2 * VolUnit

\* C17: at most one 500ms timer and at most one 1000ms timer is pending.
C17_OneTimerPerKind ==
    /\ Cardinality({k \in 1..Len(timers) : timers[k].kind = "start"}) <= 1
    /\ Cardinality({k \in 1..Len(timers) : timers[k].kind = "stop"}) <= 1

\* C18: on a live connection with no transition in progress (no request
\* outstanding, no callback stored) that is idle or sending an item's
\* stream, the guard is true.
C18_GuardTrueWhenQuiet ==
    (connection /\ Quiet /\ playing.kind # "ann") => doPlayNext

\* C19: the queue never holds the current item and never holds an empty
\* entry.
C19_QueueExcludesCurrent ==
    \A k \in 1..Len(queue) : queue[k] # NoItem /\ queue[k] # current

\* a rewind() of X has run its course: X is current again and streaming,
\* ahead of a non-empty queue
C19_Witness ==
    /\ rewound.live
    /\ Quiet
    /\ current = rewound.item
    /\ playing = ItemStream(current)
    /\ queue # <<>>

\* C20: the transport's play() is called for an announcement or for an
\* item's stream only while the transport is sending nothing.
C20_NoOverlappingPlay ==
    [][\A i \in Items :
          ((synthDone(i) \/ streamReady(i)) /\ connection) =>
              playing = NoStream]_vars

\* C21: the seek command, which gets past its isPlaying() check only while
\* the transport is sending a stream, always finds a current item there.
C21_SeekFindsCurrent ==
    [][seek => current # NoItem]_vars

====
